---------------------------- MODULE Spec2Model ----------------------------
(***************************************************************************)
(* The markdown post loader of brophy.org (post-api: readPost, getPosts)   *)
(* and the tag route loader that filters its result.                       *)
(*                                                                         *)
(* JavaScript strings are sequences of one-character strings, so that      *)
(* split(','), replace(/\.md$/, '') and the < > comparisons of the sort    *)
(* comparator are computed as the runtime computes them.  undefined and    *)
(* the booleans are one-element sequences holding a token that is no       *)
(* character, so that every front-matter value is comparable with every    *)
(* other one.                                                              *)
(***************************************************************************)
EXTENDS Integers, Sequences, FiniteSets, TLC

\* Largest number of entries of the posts directory.
MaxFiles == 3

-----------------------------------------------------------------------------
(* JavaScript values *)

Undefined == <<"undefined">>
True == <<"true">>
False == <<"false">>

\* UTF-16 code units of the characters the model's strings are made of.
CharCode ==
    [c \in {" ", ",", ".", "/", "0", "1", "2", "A", "T", "a", "b", "d", "m",
            "o", "p", "s", "t"} |->
        CASE c = " " -> 32 [] c = "," -> 44 [] c = "." -> 46 [] c = "/" -> 47
          [] c = "0" -> 48 [] c = "1" -> 49 [] c = "2" -> 50 [] c = "A" -> 65
          [] c = "T" -> 84 [] c = "a" -> 97 [] c = "b" -> 98 [] c = "d" -> 100
          [] c = "m" -> 109 [] c = "o" -> 111 [] c = "p" -> 112
          [] c = "s" -> 115 [] c = "t" -> 116]

IsString(v) == \A k \in 1..Len(v) : v[k] \in DOMAIN CharCode

\* ToBoolean: undefined, false and the empty string are falsy.
Truthy(v) == v \notin {Undefined, False, <<>>}

\* String < String: the first differing code unit decides, a proper prefix
\* is smaller.
RECURSIVE StrLess(_, _)
StrLess(a, b) ==
    IF b = <<>> THEN FALSE
    ELSE IF a = <<>> THEN TRUE
    ELSE IF a[1] # b[1] THEN CharCode[a[1]] < CharCode[b[1]]
    ELSE StrLess(Tail(a), Tail(b))

\* a < b as the comparator evaluates it: two strings compare by code units;
\* undefined converts to NaN and every comparison with NaN is false.
JsLess(a, b) == IsString(a) /\ IsString(b) /\ StrLess(a, b)
JsGreater(a, b) == JsLess(b, a)


-----------------------------------------------------------------------------
(* readPost *)

Md == <<".", "m", "d">>

EndsWithMd(filename) ==
    /\ Len(filename) >= Len(Md)
    /\ SubSeq(filename, Len(filename) - Len(Md) + 1, Len(filename)) = Md

\* A strip of every trailing '.md', as /(\.md)+$/ would do.
RECURSIVE StripEveryMd(_)
StripEveryMd(filename) ==
    IF EndsWithMd(filename)
    THEN StripEveryMd(SubSeq(filename, 1, Len(filename) - Len(Md)))
    ELSE filename

\* filename.replace(/\.md$/, '')
StripMd(filename) ==
    IF EndsWithMd(filename)
    THEN SubSeq(filename, 1, Len(filename) - Len(Md))
    ELSE filename

\* `/post/${slug}`
Permalink(slug) == <<"/", "p", "o", "s", "t", "/">> \o slug

\* A split that trims each piece.
RECURSIVE TrimSpaces(_)
TrimSpaces(s) ==
    IF s = <<>> THEN s
    ELSE IF s[1] = " " THEN TrimSpaces(Tail(s))
    ELSE IF s[Len(s)] = " " THEN TrimSpaces(SubSeq(s, 1, Len(s) - 1))
    ELSE s

RECURSIVE SplitTrimmed(_)
SplitTrimmed(s) ==
    IF \A k \in 1..Len(s) : s[k] # ","
    THEN <<TrimSpaces(s)>>
    ELSE LET k == CHOOSE j \in 1..Len(s) :
                      s[j] = "," /\ \A h \in 1..(j - 1) : s[h] # ","
         IN <<TrimSpaces(SubSeq(s, 1, k - 1))>>
                \o SplitTrimmed(SubSeq(s, k + 1, Len(s)))

\* A split that drops the empty pieces.
RECURSIVE SplitNoEmpty(_)
SplitNoEmpty(s) ==
    IF s = <<>> THEN <<>>
    ELSE IF \A k \in 1..Len(s) : s[k] # ","
    THEN <<s>>
    ELSE LET k == CHOOSE j \in 1..Len(s) :
                      s[j] = "," /\ \A h \in 1..(j - 1) : s[h] # ","
         IN (IF k = 1 THEN <<>> ELSE <<SubSeq(s, 1, k - 1)>>)
                \o SplitNoEmpty(SubSeq(s, k + 1, Len(s)))

\* s.split(','): the pieces between the commas, empty pieces kept; a string
\* without a comma, the empty string included, is one piece.
RECURSIVE Split(_)
Split(s) ==
    IF \A k \in 1..Len(s) : s[k] # ","
    THEN <<s>>
    ELSE LET k == CHOOSE j \in 1..Len(s) :
                      s[j] = "," /\ \A h \in 1..(j - 1) : s[h] # ","
         IN <<SubSeq(s, 1, k - 1)>> \o Split(SubSeq(s, k + 1, Len(s)))

\* attributes.tags ?? ''
RawTags(attributes) ==
    IF attributes.tags = Undefined THEN <<>> ELSE attributes.tags

\* A validation that checks nothing.
IsValidAlways(attributes) == TRUE

\* A validation that lets drafts through unchecked.
IsValidUnlessDraft(attributes) ==
    attributes.draft = True \/ Truthy(attributes.title)

\* attributes?.title, which invariant() then tests for truthiness.
IsValidPostAttributes(attributes) == Truthy(attributes.title)

\* readPost rejects when fs.readFile rejects or when invariant() throws.
ReadPostThrows(file) ==
    \/ ~file.readable
    \/ ~IsValidPostAttributes(file.attributes)

\* The Post readPost resolves with.  filename is not a field of Post: it
\* records the directory entry the record was built from and no operation
\* reads it.  excerpt, readingTime and relativeDate are derived from the
\* body and the clock alone and are left out.
ReadPost(filename, file) ==
    [title     |-> file.attributes.title,
     author    |-> file.attributes.author,
     postDate  |-> file.attributes.postDate,
     draft     |-> file.attributes.draft,
     tags      |-> Split(RawTags(file.attributes)),
     slug      |-> StripMd(filename),
     permalink |-> Permalink(StripMd(filename)),
     filename  |-> filename]

-----------------------------------------------------------------------------
(* getPosts *)

\* Values collected in the order of completion.
PromiseAllAppend(vals, i, post) ==
    ((Cardinality(DOMAIN vals) + 1) :> post) @@ vals

\* Promise.all's resolve-element step: the value goes to the index of its
\* promise in the input, whatever the order of completion.
PromiseAllResolveElement(vals, i, post) == (i :> post) @@ vals

\* No draft filter, and the filter without its negation.
FilterNothing(posts) == posts

FilterNonDrafts(posts) == SelectSeq(posts, LAMBDA p : Truthy(p.draft))

\* posts.filter((p) => !p.draft)
FilterDrafts(posts) == SelectSeq(posts, LAMBDA p : ~Truthy(p.draft))

\* (a, b) => a.postDate < b.postDate ? 1 : a.postDate > b.postDate ? -1 : 0
ComparePosts(a, b) ==
    IF JsLess(a.postDate, b.postDate) THEN 1
    ELSE IF JsGreater(a.postDate, b.postDate) THEN -1
    ELSE 0

IndexPermutations(n) ==
    {p \in [1..n -> 1..n] : \A i, j \in 1..n : p[i] = p[j] => i = j}

\* ECMAScript's "consistent comparator" for the elements of posts.
ConsistentComparator(posts) ==
    LET E == {posts[i] : i \in 1..Len(posts)}
    IN /\ \A a \in E : ComparePosts(a, a) = 0
       /\ \A a, b \in E : ComparePosts(a, b) = 0 => ComparePosts(b, a) = 0
       /\ \A a, b, c \in E :
            /\ ComparePosts(a, b) = 0 /\ ComparePosts(b, c) = 0
                   => ComparePosts(a, c) = 0
            /\ ComparePosts(a, b) < 0 /\ ComparePosts(b, c) < 0
                   => ComparePosts(a, c) < 0
            /\ ComparePosts(a, b) > 0 /\ ComparePosts(b, c) > 0
                   => ComparePosts(a, c) > 0

\* Array.prototype.sort with ComparePosts: the outcomes the language allows.
\* With a consistent comparator the result is the one stable sorted order;
\* otherwise the order is implementation-defined: some permutation.
Sort(posts) ==
    LET n == Len(posts)
        Apply(p) == [i \in 1..n |-> posts[p[i]]]
        Sorted(p) ==
            \A i, j \in 1..n :
                i < j => /\ ComparePosts(posts[p[i]], posts[p[j]]) <= 0
                         /\ ComparePosts(posts[p[i]], posts[p[j]]) = 0
                                => p[i] < p[j]
    IN IF ConsistentComparator(posts)
       THEN {Apply(p) : p \in {q \in IndexPermutations(n) : Sorted(q)}}
       ELSE {Apply(p) : p \in IndexPermutations(n)}

-----------------------------------------------------------------------------
(* tag route loader *)

\* A match of the tag against the start of a tag of the post.
IncludesPrefix(tags, tag) ==
    \E k \in 1..Len(tags) :
        Len(tag) <= Len(tags[k]) /\ SubSeq(tags[k], 1, Len(tag)) = tag

\* p.tags.includes(tag)
Includes(tags, tag) == \E k \in 1..Len(tags) : tags[k] = tag

\* posts.filter((p) => p.tags.includes(tag))
FilterByTag(posts, tag) == SelectSeq(posts, LAMBDA p : Includes(p.tags, tag))

-----------------------------------------------------------------------------
(* The environment: the posts directory and the route parameters *)

FileNames ==
    << <<"a", ".", "m", "d">>,
       <<"b", ".", "m", "d">>,
       <<"a">>,
       <<"a", ".", "m", "d", ".", "m", "d">>,
       <<"b">> >>

\* What fs.readdir can resolve with: the first n names, or any n distinct
\* names in any order.
FirstNames == {SubSeq(FileNames, 1, n) : n \in 0..MaxFiles}

AnyNames ==
    UNION {{[i \in 1..n |-> FileNames[p[i]]] :
               p \in {q \in [1..n -> 1..Len(FileNames)] :
                         \A i, j \in 1..n : q[i] = q[j] => i = j}} :
           n \in 0..MaxFiles}

Attributes(title, postDate, tags, draft) ==
    [title |-> title, author |-> <<"m">>, postDate |-> postDate,
     tags |-> tags, draft |-> draft]

Unreadable ==
    [readable |-> FALSE, attributes |-> Attributes(Undefined, Undefined, Undefined, Undefined)]

File(title, postDate, tags, draft) ==
    [readable |-> TRUE, attributes |-> Attributes(title, postDate, tags, draft)]

\* Files whose metadata fails validation.
BadFiles ==
    {Unreadable,
     File(Undefined, <<"1">>, <<"a">>, Undefined),
     File(<<>>, <<"1">>, <<"a">>, Undefined),
     File(Undefined, <<"2">>, <<"a">>, True)}

\* Files that differ in draft flag and postDate.
DatedFiles ==
    {File(<<"T">>, d, <<"a">>, Undefined) :
        d \in {Undefined, <<"1">>, <<"2">>, <<"1", "0">>}}
    \cup {File(<<"T">>, <<"2">>, <<"a">>, True)}
    \cup {File(<<"T">>, <<"1">>, <<"a">>, False)}

\* Files that differ in the raw tags string.
RawTagStrings ==
    {Undefined, <<"a">>, <<"a", "b">>, <<"a", ",", "b", ",", "A">>,
     <<"a", ",", " ", "b">>, <<"b", ",", ",", "a">>}

TaggedFiles == {File(<<"T">>, <<"1">>, t, Undefined) : t \in RawTagStrings}

SlugFiles ==
    {Unreadable,
     File(<<"T">>, <<"1">>, <<"a">>, Undefined),
     File(<<"T">>, <<"2">>, <<"a">>, True)}

TagParams == {Undefined, <<"a">>, <<"b">>}

-----------------------------------------------------------------------------
(* State *)

VARIABLES
    entries,      \* what fs.readdir(postsPath) resolves with
    files,        \* filename -> the file on disk
    tagParam,     \* params.tag of the request
    loaderPc,     \* "start", "awaitGetPosts", "returned", "threw"
    loaderPosts,  \* the posts of the LoaderData the loader returned
    pc,           \* getPosts: "idle", "readdir", "awaitAll", "returned", "threw"
    dir,          \* const dir
    settled,      \* indices of dir whose readPost promise has settled
    firstSettled, \* the index that settled first, 0 while none has
    allState,     \* Promise.all: "none", "pending", "fulfilled", "rejected"
    values,       \* Promise.all's values, index -> Post
    result        \* what getPosts returned

vars == <<entries, files, tagParam, loaderPc, loaderPosts, pc, dir, settled,
          firstSettled, allState, values, result>>

env == <<entries, files, tagParam>>

Range(s) == {s[i] : i \in 1..Len(s)}

InitWith(listings, contents, tagParams) ==
    /\ entries \in listings
    /\ files \in [Range(entries) -> contents]
    /\ tagParam \in tagParams
    /\ loaderPc = "start"
    /\ loaderPosts = <<>>
    /\ pc = "idle"
    /\ dir = <<>>
    /\ settled = {}
    /\ firstSettled = 0
    /\ allState = "none"
    /\ values = <<>>
    /\ result = <<>>

Init == InitWith(FirstNames, BadFiles \cup DatedFiles, {Undefined, <<"a">>})

InitSlug == InitWith(AnyNames, SlugFiles, {Undefined, <<"a">>})

InitTags == InitWith(FirstNames, {Unreadable} \cup TaggedFiles, TagParams)

-----------------------------------------------------------------------------
(* Actions *)

\* loader: const posts = await getPosts(); getPosts: await fs.readdir(...)
LoaderCallGetPosts ==
    /\ loaderPc = "start"
    /\ loaderPc' = "awaitGetPosts"
    /\ pc' = "readdir"
    /\ UNCHANGED <<env, loaderPosts, dir, settled, firstSettled, allState,
                   values, result>>

\* readdir resolves; dir.map(readPost) starts a readPost for every entry and
\* Promise.all waits for them all.  Promise.all of no promise is fulfilled.
Readdir ==
    /\ pc = "readdir"
    /\ dir' = entries
    /\ pc' = "awaitAll"
    /\ allState' = IF entries = <<>> THEN "fulfilled" ELSE "pending"
    /\ UNCHANGED <<env, loaderPc, loaderPosts, settled, firstSettled, values,
                   result>>

\* The readPost of entry i settles.  A rejection rejects Promise.all if it
\* is still pending; a Post is stored and, when it is the last one missing,
\* fulfils Promise.all.
ReadPostSettle(i) ==
    /\ pc \in {"awaitAll", "returned", "threw"}
    /\ i \in (1..Len(dir)) \ settled
    /\ settled' = settled \cup {i}
    /\ firstSettled' = IF settled = {} THEN i ELSE firstSettled
    /\ IF ReadPostThrows(files[dir[i]])
       THEN /\ allState' = IF allState = "pending" THEN "rejected" ELSE allState
            /\ UNCHANGED values
       ELSE /\ values' = PromiseAllResolveElement(values, i, ReadPost(dir[i], files[dir[i]]))
            /\ allState' = IF /\ allState = "pending"
                              /\ Cardinality(DOMAIN values') = Len(dir)
                           THEN "fulfilled" ELSE allState
    /\ UNCHANGED <<env, loaderPc, loaderPosts, pc, dir, result>>

\* getPosts resumes with the Promise.all values: filter, sort, return.
GetPostsReturn ==
    /\ pc = "awaitAll"
    /\ allState = "fulfilled"
    /\ result' \in Sort(FilterDrafts(values))
    /\ pc' = "returned"
    /\ UNCHANGED <<env, loaderPc, loaderPosts, dir, settled, firstSettled,
                   allState, values>>

\* getPosts resumes with the rejection of Promise.all and rejects.
GetPostsThrow ==
    /\ pc = "awaitAll"
    /\ allState = "rejected"
    /\ pc' = "threw"
    /\ UNCHANGED <<env, loaderPc, loaderPosts, dir, settled, firstSettled,
                   allState, values, result>>

\* loader resumes with the posts: invariant(typeof tag === 'string'), then
\* the posts that include the tag.
LoaderReturn ==
    /\ loaderPc = "awaitGetPosts"
    /\ pc = "returned"
    /\ IF IsString(tagParam)
       THEN /\ loaderPosts' = FilterByTag(result, tagParam)
            /\ loaderPc' = "returned"
       ELSE /\ loaderPc' = "threw"
            /\ UNCHANGED loaderPosts
    /\ UNCHANGED <<env, pc, dir, settled, firstSettled, allState, values,
                   result>>

\* loader resumes with the rejection of getPosts and rejects.
LoaderThrow ==
    /\ loaderPc = "awaitGetPosts"
    /\ pc = "threw"
    /\ loaderPc' = "threw"
    /\ UNCHANGED <<env, loaderPosts, pc, dir, settled, firstSettled, allState,
                   values, result>>

Next ==
    \/ LoaderCallGetPosts
    \/ Readdir
    \/ \E i \in 1..MaxFiles : ReadPostSettle(i)
    \/ GetPostsReturn
    \/ GetPostsThrow
    \/ LoaderReturn
    \/ LoaderThrow

Spec == Init /\ [][Next]_vars

SpecSlug == InitSlug /\ [][Next]_vars

SpecTags == InitTags /\ [][Next]_vars

-----------------------------------------------------------------------------
(* Properties *)

Returned == pc = "returned"

\* The directory entries readPost rejects for: unreadable, or no truthy title.
Invalid(f) == ~files[f].readable \/ ~Truthy(files[f].attributes.title)

IsDraft(f) == files[f].attributes.draft = True

AllSettled == pc \notin {"idle", "readdir"} /\ settled = 1..Len(dir)

\* The number of entries of result built from directory entry f.
EntriesOf(f) == Cardinality({k \in 1..Len(result) : result[k].filename = f})

Trimmed(s) == s = <<>> \/ (s[1] # " " /\ s[Len(s)] # " ")

NoComma(s) == \A k \in 1..Len(s) : s[k] # ","

\* The raw string has a space at its start, at its end or next to a comma.
EdgeSpace(raw) ==
    /\ raw # <<>>
    /\ \/ raw[1] = " "
       \/ raw[Len(raw)] = " "
       \/ \E j \in 1..Len(raw) :
            /\ raw[j] = ","
            /\ \/ (j > 1 /\ raw[j - 1] = " ")
               \/ (j < Len(raw) /\ raw[j + 1] = " ")

\* tags.join(',')
RECURSIVE Join(_)
Join(t) ==
    IF Len(t) = 0 THEN <<>>
    ELSE IF Len(t) = 1 THEN t[1]
    ELSE t[1] \o <<",">> \o Join(Tail(t))

\* The raw tags string of the file that values[i] was read from.
RawOf(i) == files[dir[i]].attributes.tags

\* C1: when getPosts returns, no post of the returned sequence has
\* draft = true.
C1_NoDraftReturned ==
    Returned => \A k \in 1..Len(result) : result[k].draft # True

C1_Witness ==
    /\ Returned
    /\ Len(result) >= 1
    /\ \E f \in Range(dir) : IsDraft(f)

\* C2: any two returned posts that have distinct postDate values are in
\* descending order: A is before B if and only if A.postDate > B.postDate,
\* also when files of the directory have a title and no postDate.
C2_Descending ==
    Returned =>
        \A i, j \in 1..Len(result) :
            /\ IsString(result[i].postDate)
            /\ IsString(result[j].postDate)
            /\ result[i].postDate # result[j].postDate
            => (i < j <=> JsGreater(result[i].postDate, result[j].postDate))

\* C3: when an entry of the directory cannot be read or has no non-empty
\* title, getPosts never returns, it has no result, the loader returns no
\* posts, and once every read has settled Promise.all is rejected.
C3_FailFast ==
    (\E f \in Range(entries) : Invalid(f)) =>
        /\ ~Returned
        /\ result = <<>>
        /\ loaderPc # "returned"
        /\ loaderPosts = <<>>
        /\ AllSettled => allState = "rejected"

C3_Witness ==
    /\ pc = "threw"
    /\ loaderPc = "threw"
    /\ DOMAIN values # {}
    /\ result = <<>>

\* C4 as stated: when getPosts returns, every file of the directory has
\* exactly one entry in the returned sequence.
C4_OnePerFile ==
    Returned => \A f \in Range(dir) : EntriesOf(f) = 1

\* C4 as amended: when getPosts returns, every file whose draft flag is not
\* truthy has exactly one entry in the returned sequence, every draft has
\* none, and the sequence has no other entry.
C4_OnePerPublishedFile ==
    Returned =>
        /\ \A f \in Range(dir) :
             EntriesOf(f) = IF Truthy(files[f].attributes.draft) THEN 0 ELSE 1
        /\ \A k \in 1..Len(result) : result[k].filename \in Range(dir)

C4_Witness ==
    /\ Returned
    /\ \E f \in Range(dir) : IsDraft(f)
    /\ \E f \in Range(dir) : files[f].attributes.draft = False
    /\ \E f \in Range(dir) : files[f].attributes.draft = Undefined

\* C5 as stated: no two posts of the returned sequence have the same slug
\* or the same permalink, whatever the distinct filenames of the directory.
C5_SlugsUnique ==
    Returned =>
        \A i, j \in 1..Len(result) :
            i # j => /\ result[i].slug # result[j].slug
                     /\ result[i].permalink # result[j].permalink

\* C5 as amended: no two posts of the returned sequence have the same slug
\* or the same permalink when every filename of the directory ends in '.md'.
C5_SlugsUniqueAmongMd ==
    (Returned /\ \A i \in 1..Len(dir) :
                    /\ Len(dir[i]) >= 3
                    /\ dir[i][Len(dir[i]) - 2] = "."
                    /\ dir[i][Len(dir[i]) - 1] = "m"
                    /\ dir[i][Len(dir[i])] = "d") =>
        \A i, j \in 1..Len(result) :
            i # j => /\ result[i].slug # result[j].slug
                     /\ result[i].permalink # result[j].permalink

C5_Witness ==
    /\ Returned
    /\ Len(result) >= 2
    /\ \A i \in 1..Len(dir) : EndsWithMd(dir[i])
    /\ \E i \in 1..Len(dir) : EndsWithMd(StripMd(dir[i]))

\* C6 as stated: every element of the tags of a Post built by readPost has
\* no leading and no trailing whitespace.
C6_TagsTrimmed ==
    \A i \in DOMAIN values :
        \A k \in 1..Len(values[i].tags) : Trimmed(values[i].tags[k])

\* C6 as amended: every element of the tags of a Post built by readPost is
\* a piece of the raw string kept as written: it holds no comma, and some
\* element has leading or trailing whitespace exactly when the raw string
\* has whitespace at its start, at its end or next to a comma.
C6_TagsAsWritten ==
    \A i \in DOMAIN values :
        /\ \A k \in 1..Len(values[i].tags) : NoComma(values[i].tags[k])
        /\ (\E k \in 1..Len(values[i].tags) : ~Trimmed(values[i].tags[k]))
              <=> (RawOf(i) # Undefined /\ EdgeSpace(RawOf(i)))

C6_Witness ==
    \E i \in DOMAIN values :
        /\ RawOf(i) = <<"a", ",", " ", "b">>
        /\ values[i].tags = << <<"a">>, <<" ", "b">> >>

\* C7: the tags of a Post built by readPost are the pieces of the raw tags
\* string between its commas, in order: joined with commas they give the
\* raw string back and no piece holds a comma ('a,b,A' gives 'a', 'b',
\* 'A'); an absent tags field gives one element, the empty string.
C7_TagsSplit ==
    \A i \in DOMAIN values :
        /\ RawOf(i) = Undefined => values[i].tags = << <<>> >>
        /\ RawOf(i) # Undefined =>
              /\ Len(values[i].tags) >= 1
              /\ Join(values[i].tags) = RawOf(i)
              /\ \A k \in 1..Len(values[i].tags) : NoComma(values[i].tags[k])
        /\ RawOf(i) = <<"a", ",", "b", ",", "A">> =>
              values[i].tags = << <<"a">>, <<"b">>, <<"A">> >>

C7_Witness ==
    /\ \E i \in DOMAIN values : RawOf(i) = Undefined
    /\ \E i \in DOMAIN values : RawOf(i) = <<"a", ",", "b", ",", "A">>
    /\ \E i \in DOMAIN values : RawOf(i) = <<"b", ",", ",", "a">>

\* C8: when the loader returns for a string tag, its posts are the posts of
\* getPosts that have a tag equal to the tag, all of them and no other, in
\* the order getPosts returned them.
C8_TagFilter ==
    loaderPc = "returned" =>
        LET keep == {k \in 1..Len(result) : tagParam \in Range(result[k].tags)}
        IN /\ Len(loaderPosts) = Cardinality(keep)
           /\ \E f \in [1..Len(loaderPosts) -> keep] :
                /\ \A m, n \in 1..Len(loaderPosts) : m < n => f[m] < f[n]
                /\ \A m \in 1..Len(loaderPosts) : loaderPosts[m] = result[f[m]]

C8_Witness ==
    /\ loaderPc = "returned"
    /\ tagParam = <<"a">>
    /\ Len(loaderPosts) >= 2
    /\ \E k \in 1..Len(result) : result[k].tags = << <<"a", "b">> >>
    /\ \E k \in 1..Len(result) : result[k].tags = << <<"a">>, <<" ", "b">> >>

\* The posts of the directory in the order of the listing.
InListingOrder == [i \in 1..Len(entries) |-> ReadPost(entries[i], files[entries[i]])]

\* C9: getPosts starts the reads of all entries together, and when all of
\* them succeed the values it filters and sorts are the posts in the order
\* of the listing, whatever the order the reads completed in: the returned
\* sequence is a sort of the published posts of the listing.
C9_CompletionOrderIrrelevant ==
    /\ pc \in {"awaitAll", "returned", "threw"} => dir = entries
    /\ pc = "readdir" => settled = {}
    /\ Returned =>
          /\ values = InListingOrder
          /\ result \in Sort(FilterDrafts(InListingOrder))

C9_Witness ==
    /\ Returned
    /\ Len(dir) >= 2
    /\ firstSettled = Len(dir)
    /\ values[1] # values[Len(dir)]
    /\ Len(result) >= 2

\* C10: getPosts returns only if every entry passes validation, the drafts
\* too: with a draft that has no non-empty title it never returns, and
\* once every read has settled Promise.all is rejected.
C10_ValidationBeforeDraftFilter ==
    /\ Returned => \A f \in Range(entries) : IsDraft(f) => ~Invalid(f)
    /\ (\E f \in Range(entries) : IsDraft(f) /\ Invalid(f)) /\ AllSettled
          => allState = "rejected"

C10_Witness ==
    /\ pc = "threw"
    /\ \E f \in Range(entries) : IsDraft(f) /\ Invalid(f)
    /\ \A f \in Range(entries) : Invalid(f) => IsDraft(f)
    /\ Len(dir) >= 2

=============================================================================
